---- MODULE Spec2Model ----
(***************************************************************************)
(* datadoggo-v3-alpaca: the retry-aware fetch / normalise / upsert         *)
(* pipeline.                                                               *)
(*                                                                         *)
(*   utils/retry.py            alpaca_retry (tenacity), is_rate_limit_error *)
(*   fetchers/*.py             the six fetchers and their normalisers       *)
(*   repository/postgres.py    PostgresRepository.upsert_*                  *)
(*   services/historical.py    HistoricalIngestionService.ingest_*          *)
(*   services/symbol_sync.py   SymbolSyncService.sync_*                     *)
(*                                                                         *)
(* Abstractions.  A table row keeps the conflict columns of its table, one *)
(* NOT NULL data column (close / headline / status), one nullable data     *)
(* column (vw / author / name), the asset-class extras, source and         *)
(* ingested_at.  Instants are integers (UTC).  The provider holds one      *)
(* catalogue of items; the bar, news and asset endpoints serve it whole,   *)
(* the option-contract endpoint serves it cut into a chain of pages.       *)
(*                                                                         *)
(* Spec      one caller running ingest_* / sync_* calls one after another. *)
(* SpecRepo  one caller driving PostgresRepository.upsert_* directly, as    *)
(*           tests/repository/test_postgres.py does, repeating one call.   *)
(* SpecCancel  the calls of Spec with a caller that may cancel.            *)
(* SpecConcurrent  one ingestion of each asset class, run as tasks of one  *)
(*           event loop against the same store.                            *)
(* SpecStock ingest_stock alone, on bar responses in any timezone.         *)
(* SpecRetry an operation wrapped by alpaca_retry or alpaca_retry_async,   *)
(*           as tests/utils/test_retry.py drives it, next to another task  *)
(*           of the event loop.                                            *)
(***************************************************************************)
EXTENDS Integers, Sequences, FiniteSets, TLC

VARIABLES
    store,          \* table name -> set of rows (the committed database)
    store0,         \* the store as it was when the current call began
    clock,          \* datetime.now(timezone.utc) of the current call
    pc,             \* position of the current call
    call,           \* the operation being run and its arguments
    outcomes,       \* one entry per invocation of the (wrapped) fetcher
    exc,            \* the exception in flight (retry wait, rollback)
    df,             \* the DataFrame the call holds
    result,         \* what the call gave its caller
    prev,           \* the previous call, when it returned a row count
    tx,             \* the open transaction: table, records, working copy
    catalogue,      \* the items the provider holds
    pages,          \* the pages the provider cuts them into for this call
    page_token,     \* GetOptionContractsRequest.page_token (0 = None)
    all_contracts,  \* fetch_option_contracts' accumulator
    given,          \* SpecRepo: the table and DataFrame of the direct call
    verdict,        \* what is_rate_limit_error said of the last exception
    ticks,          \* steps taken by another task of the same event loop
    cancelled,      \* the attempts made when the caller asked to cancel
    symbols,        \* a symbols value of a news response, and what became of it
    wait_time,      \* tenths of a second of the retry wait in progress
    requests,       \* page tokens of the answered requests of this invocation
    master,         \* an upstream asset or option contract and its record
    task,           \* a run of execute_task: its position, engine and result
    tasks           \* SpecConcurrent: the ingestion tasks of one event loop

vars == <<store, store0, clock, pc, call, outcomes, exc, df, result, prev,
          tx, catalogue, pages, page_token, all_contracts, given, tasks, verdict, ticks, cancelled, symbols, wait_time,
          requests, master, task>>

(***************************************************************************)
(* Bounds of the model.                                                    *)
(***************************************************************************)
MaxCalls == 2       \* calls per behaviour
MaxItems == 3       \* items the provider holds
MaxPages == 2       \* pages of one option-contract listing
MaxPageSize == 2    \* items per page
MaxRecs == 2        \* rows of a directly upserted DataFrame
MaxTicks == 1       \* steps of the other task of the event loop
MaxSymbols == 3     \* elements of a symbols list or tuple
MaxMissing == 2     \* optional attributes an upstream object does not supply

(***************************************************************************)
(* Values.                                                                 *)
(***************************************************************************)
Null == -1                              \* None / NaN / SQL NULL
None == 0                               \* a missing page token
Timeframes == {"1Day", "5Min"}

RECURSIVE Flatten(_)
Flatten(ss) == IF ss = <<>> THEN <<>> ELSE Head(ss) \o Flatten(Tail(ss))

Range(s) == {s[i] : i \in DOMAIN s}

Last(s) == s[Len(s)]

(***************************************************************************)
(* models/tables.py: the six tables.                                       *)
(***************************************************************************)
BarTables == {"stock_bars", "crypto_bars", "option_bars"}
IdTables == {"news_articles", "assets", "option_contracts"}
Tables == BarTables \cup IdTables

\* The primary key of a table: the conflict columns every upsert uses.
conflict_columns(t) ==
    IF t \in BarTables THEN {"symbol", "timestamp", "timeframe"} ELSE {"id"}

\* The NOT NULL data column and the nullable data column kept of each table.
required_column(t) ==
    IF t \in BarTables THEN "close"
    ELSE IF t = "news_articles" THEN "headline" ELSE "status"

nullable_column(t) ==
    IF t \in BarTables THEN "vw"
    ELSE IF t = "news_articles" THEN "author" ELSE "name"

\* Asset-class extras of the bar tables (all nullable).
extra_columns(t) ==
    IF t = "crypto_bars" THEN {"exchange"}
    ELSE IF t = "option_bars" THEN {"open_interest", "underlying_symbol"}
    ELSE {}

\* table.c
table_c(t) ==
    conflict_columns(t) \cup {required_column(t), nullable_column(t)}
        \cup extra_columns(t) \cup {"source", "ingested_at"}

\* What INSERT writes into a column the statement does not name: the
\* column's default (Column(default="alpaca")), else NULL.
column_default(t, c) ==
    IF c = "source" /\ t # "news_articles" THEN "alpaca"
    ELSE IF c = "source" THEN "NULL"
    ELSE Null

KeyOf(t, row) == [c \in conflict_columns(t) |-> row[c]]

Keys(t, rows) == {KeyOf(t, r) : r \in rows}

(***************************************************************************)
(* DataFrames: a column set and a sequence of rows over those columns.     *)
(***************************************************************************)
DataFrame(cols, rows) == [columns |-> cols, rows |-> rows]

NoFrame == DataFrame({}, <<>>)          \* pd.DataFrame()

\* A frame that never reports itself empty.
never_empty(d) == FALSE

empty(d) == Len(d.rows) = 0 \/ d.columns = {}

\* dataframe[c] = v: sets the column on every row, adding it when absent.
WithColumn(d, c, v) ==
    DataFrame(d.columns \cup {c},
              [i \in DOMAIN d.rows |->
                  [k \in d.columns \cup {c} |->
                      IF k = c THEN v ELSE d.rows[i][k]]])

\* if c not in dataframe.columns: dataframe[c] = v
WithDefaultColumn(d, c, v) ==
    IF c \in d.columns THEN d ELSE WithColumn(d, c, v)

(***************************************************************************)
(* Exceptions.  status_code = Null: the exception has no such attribute.   *)
(* `at` is the invocation of the fetcher that raised it (its identity).    *)
(***************************************************************************)
Error(cls, code, n) == [cls |-> cls, status_code |-> code, at |-> n]

APIError(code, n) == Error("APIError", code, n)

Ok(n) == Error("ok", Null, n)           \* an invocation that returned

\* What one invocation of a fetcher can raise: the provider's APIError with
\* a rate-limit or another status, and the TypeError of a payload that is
\* not table-shaped.
Raisable(n) ==
    {APIError(429, n), APIError(500, n), Error("TypeError", Null, n)}

(***************************************************************************)
(* utils/retry.py                                                          *)
(***************************************************************************)
max_attempts == 5

\* A classifier that knows the provider's exception class only.
is_rate_limit_error_api_error_only(e) ==
    e.cls = "APIError" /\ e.status_code = 429

\* A classifier that takes every status code for a rate limit.
is_rate_limit_error_any_status(e) == e.status_code # Null

is_rate_limit_error(e) ==
    IF e.cls = "APIError"
    THEN e.status_code # Null /\ e.status_code = 429
    ELSE IF e.status_code # Null THEN e.status_code = 429
    ELSE FALSE

\* A ceiling that counts the retries, not the attempts.
stop_after_attempt_off_by_one(attempt_number) ==
    attempt_number >= max_attempts + 1

\* stop=stop_after_attempt(5)
stop_after_attempt(attempt_number) == attempt_number >= max_attempts

\* The fetchers that carry the @alpaca_retry decorator.
Decorated(op) ==
    op \in {"ingest_stock", "ingest_news", "sync_assets",
            "sync_option_contracts"}

\* tenacity's decision after a failed attempt: TRUE = sleep and call again,
\* FALSE = re-raise the attempt's exception (reraise=True).
RetryAgain(op, e, attempt_number) ==
    /\ Decorated(op)
    /\ is_rate_limit_error(e)
    /\ ~stop_after_attempt(attempt_number)

(***************************************************************************)
(* The provider.                                                           *)
(***************************************************************************)
\* An item of the provider: its identity (for a bar, the wall-clock reading
\* of its timestamp), its value, and the UTC offset of its timestamp
\* (Null: a timestamp without timezone).  The provider answers in UTC.
Item(n) == [id |-> n, val |-> 2, tz |-> 0]

\* Bar responses whose timestamps carry no timezone, UTC, or UTC+5.
StockResponses ==
    {[i \in 1..n |-> [id |-> i + 5, val |-> 2, tz |-> tz]] :
        n \in 1..MaxItems, tz \in {Null, 0, 5}}

RECURSIVE SumTo(_, _)
SumTo(sizes, p) == IF p = 0 THEN 0 ELSE sizes[p] + SumTo(sizes, p - 1)

\* The provider's items are numbered 1, 2, ..
Catalogues == {[i \in 1..n |-> Item(i)] : n \in 0..MaxItems}

\* The items cut into pages of the given sizes.
Paged(items, sizes) ==
    [p \in 1..Len(sizes) |->
        [j \in 1..sizes[p] |-> items[SumTo(sizes, p - 1) + j]]]

\* Every way the provider may cut the items into a chain of pages: no page
\* is empty, but for the one page that answers a listing without items.
Pagings(items) ==
    IF items = <<>> THEN {<< <<>> >>}
    ELSE {Paged(items, sizes) :
            sizes \in {z \in UNION {[1..n -> 1..MaxPageSize] : n \in 1..MaxPages} :
                          SumTo(z, Len(z)) = Len(items)}}

\* client.get_option_contracts(request): the page the request's token names
\* and the token of the page after it.
PageOf(token) == IF token = None THEN 1 ELSE token

option_contracts_of(token) == pages[PageOf(token)]

next_page_token(token) ==
    IF PageOf(token) < Len(pages) THEN PageOf(token) + 1 ELSE None

(***************************************************************************)
(* fetchers: the normalisers.                                              *)
(***************************************************************************)
\* One bars table for every asset class.
TableOf_shared_bars(op) ==
    CASE op = "ingest_stock" -> "stock_bars"
      [] op = "ingest_crypto" -> "stock_bars"
      [] op = "ingest_option" -> "stock_bars"
      [] op = "ingest_news" -> "news_articles"
      [] op = "sync_assets" -> "assets"
      [] op = "sync_option_contracts" -> "option_contracts"

TableOf(op) ==
    CASE op = "ingest_stock" -> "stock_bars"
      [] op = "ingest_crypto" -> "crypto_bars"
      [] op = "ingest_option" -> "option_bars"
      [] op = "ingest_news" -> "news_articles"
      [] op = "sync_assets" -> "assets"
      [] op = "sync_option_contracts" -> "option_contracts"

\* A conversion that keeps the wall-clock reading and drops the offset.
to_datetime_keep_wall(wall, tz) == wall

\* pd.to_datetime(timestamp, errors="coerce", utc=True): a timestamp with an
\* offset becomes the same instant in UTC, one without is read as UTC.
to_datetime_utc(wall, tz) == IF tz = Null THEN wall ELSE wall - tz

\* fetchers/_base.py prepare_bars_dataframe
prepare_bars_dataframe(items, timeframe) ==
    IF items = <<>>
    THEN DataFrame({"symbol", "timestamp", "close", "vw", "timeframe"}, <<>>)
    ELSE DataFrame({"symbol", "timestamp", "close", "vw", "timeframe"},
            [i \in DOMAIN items |->
                [symbol |-> "AAPL",
                 timestamp |-> to_datetime_utc(items[i].id, items[i].tz),
                 close |-> items[i].val, vw |-> items[i].val,
                 timeframe |-> timeframe]])

fetch_stock_historical(items, timeframe) ==
    LET dataframe == prepare_bars_dataframe(items, timeframe)
    IN  IF empty(dataframe) THEN dataframe
        ELSE WithColumn(dataframe, "source", "alpaca")

fetch_crypto_historical(items, timeframe) ==
    LET dataframe == WithDefaultColumn(
            prepare_bars_dataframe(items, timeframe), "exchange", Null)
    IN  IF empty(dataframe) THEN dataframe
        ELSE WithColumn(dataframe, "source", "alpaca")

fetch_option_historical(items, timeframe) ==
    LET dataframe == prepare_bars_dataframe(items, timeframe)
    IN  IF empty(dataframe) THEN dataframe
        ELSE WithColumn(
                WithDefaultColumn(
                    WithDefaultColumn(dataframe, "open_interest", 0),
                    "underlying_symbol", Null),
                "source", "alpaca")

fetch_news_articles(items) ==
    IF items = <<>> THEN NoFrame
    ELSE DataFrame({"id", "headline", "author", "source"},
            [i \in DOMAIN items |->
                [id |-> items[i].id, headline |-> items[i].val,
                 author |-> Null, source |-> "alpaca"]])

\* The record list of fetch_assets and of fetch_option_contracts.
MasterFrame(items) ==
    IF items = <<>> THEN NoFrame
    ELSE WithColumn(
            DataFrame({"id", "status", "name"},
                [i \in DOMAIN items |->
                    [id |-> items[i].id, status |-> items[i].val,
                     name |-> items[i].val]]),
            "source", "alpaca")

fetch_assets(items) == MasterFrame(items)

\* The DataFrame a single-request fetcher builds from the provider's answer.
Normalise(op, items, timeframe) ==
    CASE op = "ingest_stock" -> fetch_stock_historical(items, timeframe)
      [] op = "ingest_crypto" -> fetch_crypto_historical(items, timeframe)
      [] op = "ingest_option" -> fetch_option_historical(items, timeframe)
      [] op = "ingest_news" -> fetch_news_articles(items)
      [] op = "sync_assets" -> fetch_assets(items)

(***************************************************************************)
(* The symbols value of a news item, as a Python object, and the two       *)
(* normalisers of it.  A list[str] is a sequence of strings.               *)
(***************************************************************************)
PyNone == [type |-> "NoneType"]
PyStr(s) == [type |-> "str", s |-> s]
PyInt(n) == [type |-> "int", n |-> n]
PyFloat(repr) == [type |-> "float", repr |-> repr]
PyList(items) == [type |-> "list", items |-> items]
PyTuple(items) == [type |-> "tuple", items |-> items]

\* str(item)
digits == <<"1", "2", "3", "4", "5", "6", "7", "8", "9">>

str(item) ==
    CASE item.type = "str" -> item.s
      [] item.type = "int" -> digits[item.n]
      [] item.type = "float" -> item.repr
      [] item.type = "NoneType" -> "None"

\* pd.isna(value) of a float
isna(value) == value.repr = "nan"

\* [str(item) for item in items if item is not None]
StrOfEach(items) ==
    LET kept == SelectSeq(items, LAMBDA item : item # PyNone)
    IN  [i \in DOMAIN kept |-> str(kept[i])]

\* the comprehension without its filter
StrOfEveryItem(items) == [i \in DOMAIN items |-> str(items[i])]

news_normalize_symbols_keeps_none(value) ==
    IF value.type \in {"list", "tuple"} THEN StrOfEveryItem(value.items)
    ELSE IF value = PyNone \/ (value.type = "float" /\ isna(value)) THEN <<>>
    ELSE <<str(value)>>

\* A normaliser that takes a tuple for a scalar.
postgres_normalize_symbols_list_only(value) ==
    IF value.type = "list" THEN StrOfEach(value.items)
    ELSE IF value = PyNone \/ (value.type = "float" /\ isna(value)) THEN <<>>
    ELSE IF value.type = "tuple" THEN <<"(...)">>
    ELSE <<str(value)>>

\* fetchers/news.py
news_normalize_symbols(value) ==
    IF value.type \in {"list", "tuple"} THEN StrOfEach(value.items)
    ELSE IF value = PyNone \/ (value.type = "float" /\ isna(value)) THEN <<>>
    ELSE <<str(value)>>

\* repository/postgres.py
postgres_normalize_symbols(value) ==
    IF value.type = "list" THEN StrOfEach(value.items)
    ELSE IF value.type = "tuple" THEN StrOfEach(value.items)
    ELSE IF value = PyNone \/ (value.type = "float" /\ isna(value)) THEN <<>>
    ELSE <<str(value)>>

\* The list[str] a normaliser returned, as the Python object it is.
ListOfStr(strings) == PyList([i \in DOMAIN strings |-> PyStr(strings[i])])

\* What a response may hold as the symbols of an item.
SymbolsItems == {PyNone, PyStr("AAPL"), PyStr("MSFT"), PyInt(7), PyFloat("nan")}
SymbolsScalars == SymbolsItems \cup {PyFloat("1.5")}
SymbolsSequences ==
    UNION {[1..n -> SymbolsItems] : n \in 0..MaxSymbols}
SymbolsValues ==
    SymbolsScalars
    \cup {PyList(items) : items \in SymbolsSequences}
    \cup {PyTuple(items) : items \in SymbolsSequences}

NoSymbols ==
    [value |-> PyNone, pc |-> "none", fetched |-> FALSE,
     dataframe |-> <<>>, records |-> <<>>]

(***************************************************************************)
(* fetch_assets and fetch_option_contracts: from the upstream object to    *)
(* the record.  An object is a function from the attributes it has to      *)
(* their values.                                                           *)
(***************************************************************************)
asset_optional ==
    {"name", "marginable", "shortable", "easy_to_borrow", "fractionable",
     "options_enabled", "maintenance_margin_requirement", "min_order_size",
     "min_trade_increment", "price_increment"}

contract_optional ==
    {"name", "underlying_asset_id", "style", "multiplier", "size",
     "open_interest", "open_interest_date", "close_price",
     "close_price_date"}

\* getattr(object, name, None)
getattr(object, name) ==
    IF name \in DOMAIN object THEN object[name] ELSE PyNone

\* `x if value else None`: None is falsy, the values of the objects here
\* are truthy.
truthy(value) == value # PyNone

\* The record of an asset: its optional attributes.
asset_record(asset) ==
    [c \in asset_optional \cup {"id"} |->
        IF c = "id" THEN PyStr(str(asset["id"])) ELSE getattr(asset, c)]

\* The record of an option contract: its optional attributes.
contract_record(contract) ==
    [c \in contract_optional \cup {"id"} |->
        CASE c = "id" -> PyStr(str(contract["id"]))
          [] c = "underlying_asset_id" ->
                IF truthy(getattr(contract, c))
                THEN PyStr(str(getattr(contract, c)))
                ELSE PyNone
          [] c = "multiplier" -> PyStr(str(getattr(contract, c)))
          [] OTHER -> getattr(contract, c)]

\* The upstream objects: an id, and each optional attribute absent, None or
\* supplied, at most MaxMissing of them not supplied.
UpstreamObjects(optional) ==
    {object \in UNION {[attributes \cup {"id"} -> {PyNone, PyInt(7)}] :
                          attributes \in SUBSET optional} :
        /\ object["id"] = PyInt(7)
        /\ Cardinality({c \in optional : getattr(object, c) = PyNone})
              <= MaxMissing}

NoMaster == [pc |-> "none", kind |-> "none", object |-> <<>>, record |-> <<>>]

\* records.append(record) in fetch_assets
append_asset_record ==
    /\ master.pc = "object"
    /\ master.kind = "asset"
    /\ master' = [master EXCEPT !.pc = "record",
                                !.record = asset_record(master.object)]
    /\ UNCHANGED <<store, store0, clock, pc, call, outcomes, exc, df, result,
                   prev, tx, catalogue, pages, page_token, all_contracts,
                   given, tasks, verdict, ticks, cancelled, symbols,
                   wait_time, requests, task>>

\* records.append(record) in fetch_option_contracts
append_contract_record ==
    /\ master.pc = "object"
    /\ master.kind = "contract"
    /\ master' = [master EXCEPT !.pc = "record",
                                !.record = contract_record(master.object)]
    /\ UNCHANGED <<store, store0, clock, pc, call, outcomes, exc, df, result,
                   prev, tx, catalogue, pages, page_token, all_contracts,
                   given, tasks, verdict, ticks, cancelled, symbols,
                   wait_time, requests, task>>

(***************************************************************************)
(* Calls and their results.                                                *)
(***************************************************************************)
NoError == Error("none", Null, 0)

NoResult == [kind |-> "none", value |-> 0, error |-> NoError]
Returned(n) == [kind |-> "returned", value |-> n, error |-> NoError]
\* An except clause that turns the error into "nothing to do".
Swallowed(e) == Returned(0)

Raised(e) == [kind |-> "raised", value |-> 0, error |-> e]

Call(op, arg, factory) == [op |-> op, arg |-> arg, factory |-> factory]

NoCall == Call("none", "-", "-")

IngestOps == {"ingest_stock", "ingest_crypto", "ingest_option", "ingest_news"}
SyncOps == {"sync_assets", "sync_option_contracts"}

\* The client factories a SymbolSyncService is built with: the production
\* AlpacaClientFactory (clients/alpaca.py) and the tests' DummyClientFactory.
Factories == {"AlpacaClientFactory", "DummyClientFactory"}

\* AlpacaClientFactory defines stock(), crypto(), option() and news() only.
HasTrading(factory) == factory = "DummyClientFactory"

AssetClasses == {"None", "all", "us_equity", "crypto", "futures"}

ValidAssetClass(asset_class) ==
    asset_class \in {"None", "all", "us_equity", "crypto"}

(***************************************************************************)
(* repository/postgres.py                                                  *)
(***************************************************************************)
NoTx == [table |-> "none", records |-> <<>>, rows |-> {}, open |-> FALSE]

\* _to_records: one dict per row; instants are already UTC integers here.
_to_records(d) == d.rows

\* The row INSERT proposes for a record (EXCLUDED in the ON CONFLICT clause).
Proposed(t, rec) ==
    [c \in table_c(t) |->
        IF c \in DOMAIN rec THEN rec[c] ELSE column_default(t, c)]

\* A SET clause that leaves the nullable data column out.
update_columns_without_nullable(t) ==
    table_c(t) \ (conflict_columns(t) \cup {nullable_column(t)})

\* update_columns: every column of the table outside the conflict columns.
update_columns(t) == table_c(t) \ conflict_columns(t)

\* ON CONFLICT DO NOTHING.
DoNothing(t, old, excluded) == old

\* DO UPDATE SET c = EXCLUDED.c for c in update_columns.
DoUpdate(t, old, excluded) ==
    [c \in table_c(t) |->
        IF c \in update_columns(t) THEN excluded[c] ELSE old[c]]

\* A table without a primary key: every record becomes a new row.
insert_only(rows, t, records) ==
    rows \cup {Proposed(t, records[i]) : i \in DOMAIN records}

\* A statement that empties the table before it inserts.
delete_then_insert(rows, t, records) ==
    {Proposed(t, records[i]) : i \in DOMAIN records}

\* INSERT ... VALUES records ON CONFLICT (conflict_columns) DO UPDATE.
on_conflict_do_update(rows, t, records) ==
    LET proposed == {Proposed(t, records[i]) : i \in DOMAIN records}
        Hit(old) == {p \in proposed : KeyOf(t, p) = KeyOf(t, old)}
    IN  {IF Hit(old) = {} THEN old
         ELSE DoUpdate(t, old, CHOOSE p \in Hit(old) : TRUE) : old \in rows}
        \cup {p \in proposed : KeyOf(t, p) \notin Keys(t, rows)}

\* PostgreSQL refuses a statement that proposes one key twice ("ON CONFLICT
\* DO UPDATE command cannot affect row a second time").
DistinctKeys(t, records) ==
    \A i, j \in DOMAIN records :
        KeyOf(t, Proposed(t, records[i])) = KeyOf(t, Proposed(t, records[j]))
            => i = j

\* Column("ingested_at", ..., nullable=False, ...): PostgreSQL refuses a
\* statement that proposes NULL for it (server_default applies only to a
\* column the statement leaves out).
NotNullHeld(t, records) ==
    \A i \in DOMAIN records : Proposed(t, records[i])["ingested_at"] # Null

StorageError == Error("DBAPIError", Null, 0)

\* Leaving `async with self._engine.begin()` normally commits the working
\* copy; leaving it with an exception rolls back to the committed rows.
Committed(committed, working) == working

\* A connection in autocommit mode: what the statement wrote stays.
NotRolledBack(committed, working) == working

RolledBack(committed, working) == committed

\* A service that prepares its statement and then goes back to fetch.
upsert_before_fetch(t, dataframe, now) ==
    /\ tx' = [table |-> t,
              records |-> _to_records(
                  WithDefaultColumn(dataframe, "ingested_at", now)),
              rows |-> {},
              open |-> TRUE]
    /\ pc' = "invoke"
    /\ result' = NoResult

\* An upsert that goes to the transaction whatever the frame holds.
upsert_without_empty_check(t, dataframe, now) ==
    /\ tx' = [table |-> t,
              records |-> _to_records(
                  WithDefaultColumn(dataframe, "ingested_at", now)),
              rows |-> {},
              open |-> FALSE]
    /\ pc' = "begin"
    /\ result' = NoResult

\* upsert_bars / upsert_news / upsert_assets / upsert_option_contracts up to
\* the transaction: the empty check, the ingested_at default, the records.
upsert(t, dataframe, now) ==
    IF empty(dataframe)
    THEN /\ result' = Returned(0)
         /\ pc' = "done"
         /\ tx' = NoTx
    ELSE /\ tx' = [table |-> t,
                   records |-> _to_records(
                       WithDefaultColumn(dataframe, "ingested_at", now)),
                   rows |-> {},
                   open |-> FALSE]
         /\ pc' = "begin"
         /\ result' = NoResult

\* async with self._engine.begin() as connection
Begin ==
    /\ pc = "begin"
    /\ cancelled = Null
    /\ tx' = [tx EXCEPT !.open = TRUE, !.rows = store[tx.table]]
    /\ pc' = "execute"
    /\ UNCHANGED <<store, store0, clock, call, outcomes, exc, df, result,
                   prev, catalogue, pages, page_token, all_contracts, given, tasks, verdict, ticks, cancelled, symbols, wait_time, requests, master, task>>

\* await connection.execute(statement.on_conflict_do_update(...))
Execute ==
    /\ pc = "execute"
    /\ DistinctKeys(tx.table, tx.records)
    /\ NotNullHeld(tx.table, tx.records)
    /\ tx' = [tx EXCEPT
                !.rows = on_conflict_do_update(tx.rows, tx.table, tx.records)]
    /\ pc' = "commit"
    /\ UNCHANGED <<store, store0, clock, call, outcomes, exc, df, result,
                   prev, catalogue, pages, page_token, all_contracts, given, tasks, verdict, ticks, cancelled, symbols, wait_time, requests, master, task>>

\* The statement fails (a duplicate key in the statement, a lost connection,
\* a violated constraint) after the server has worked through j records.
ExecuteFails ==
    /\ pc = "execute"
    /\ \E j \in 0..(Len(tx.records) - 1) :
        /\ DistinctKeys(tx.table, SubSeq(tx.records, 1, j))
        /\ tx' = [tx EXCEPT
                    !.rows = on_conflict_do_update(
                        tx.rows, tx.table, SubSeq(tx.records, 1, j))]
    /\ exc' = StorageError
    /\ pc' = "rollback"
    /\ UNCHANGED <<store, store0, clock, call, outcomes, df, result, prev,
                   catalogue, pages, page_token, all_contracts, given, tasks, verdict, ticks, cancelled, symbols, wait_time, requests, master, task>>

\* The block is left normally: commit, then return len(records).
Commit ==
    /\ pc = "commit"
    /\ store' = [store EXCEPT
                    ![tx.table] = Committed(store[tx.table], tx.rows)]
    /\ result' = Returned(Len(tx.records))
    /\ tx' = NoTx
    /\ pc' = "done"
    /\ UNCHANGED <<store0, clock, call, outcomes, exc, df, prev, catalogue, pages,
                   page_token, all_contracts, given, tasks, verdict, ticks, cancelled, symbols, wait_time, requests, master, task>>

\* The block is left by the exception: rollback, and the exception goes on
\* to the caller.
Rollback ==
    /\ pc = "rollback"
    /\ store' = [store EXCEPT
                    ![tx.table] = RolledBack(store[tx.table], tx.rows)]
    /\ result' = Raised(exc)
    /\ exc' = NoError
    /\ tx' = NoTx
    /\ pc' = "done"
    /\ UNCHANGED <<store0, clock, call, outcomes, df, prev, catalogue, pages,
                   page_token, all_contracts, given, tasks, verdict, ticks, cancelled, symbols, wait_time, requests, master, task>>

(***************************************************************************)
(* The fetch: one invocation of the fetcher after another.                 *)
(***************************************************************************)
\* A call begins: the caller has seen the previous result.
Enter(c) ==
    /\ pc \in {"idle", "done"}
    /\ clock <= MaxCalls
    /\ clock' = clock + 1
    /\ call' = c
    /\ store0' = store
    /\ prev' = IF result.kind = "returned" THEN call ELSE NoCall
    /\ outcomes' = <<>>
    /\ exc' = NoError
    /\ all_contracts' = <<>>
    /\ df' = NoFrame
    /\ page_token' = None
    /\ cancelled' = Null
    /\ requests' = <<>>

\* The invocation raises e (from the client, or from the normalisation of
\* what the client returned).  A decorated fetcher goes through tenacity:
\* sleep and call again, or re-raise; an undecorated one just raises.
FetchRaises ==
    /\ pc \in {"invoke", "page"}
    /\ \E e \in Raisable(Len(outcomes) + 1) :
        /\ outcomes' = Append(outcomes, e)
        /\ IF RetryAgain(call.op, e, Len(outcomes) + 1)
           THEN /\ pc' = "wait"
                /\ exc' = e
                /\ result' = result
           ELSE /\ pc' = "done"
                /\ exc' = NoError
                /\ result' = Raised(e)
    /\ all_contracts' = <<>>
    /\ UNCHANGED <<store, store0, clock, call, df, prev, tx, catalogue, pages,
                   page_token, given, tasks, verdict, ticks, cancelled, symbols, wait_time, requests, master, task>>

\* before_sleep, then the wait is over: the fetcher is invoked again with
\* the same arguments.
RetrySleep ==
    /\ pc = "wait"
    /\ pc' = "invoke"
    /\ exc' = NoError
    /\ UNCHANGED <<store, store0, clock, call, outcomes, df, result, prev,
                   tx, catalogue, pages, page_token, all_contracts, given, tasks, verdict, ticks, cancelled, symbols, wait_time, requests, master, task>>

(***************************************************************************)
(* utils/retry.py driven directly: a wrapped operation and its outcomes.   *)
(***************************************************************************)
Variants == {"alpaca_retry", "alpaca_retry_async"}

\* What a wrapped operation can raise: the provider's APIError (with a
\* status, or without an HTTP response), another exception class that has
\* a status_code, and one that has none.
RaisableAny(n) ==
    {APIError(429, n), APIError(500, n), APIError(Null, n),
     Error("DummyAPIError", 429, n), Error("DummyAPIError", 500, n),
     Error("ValueError", Null, n)}

\* Does the variant hand the exception to is_rate_limit_error?  tenacity's
\* retry_if_exception sees every exception; the wrapper of
\* alpaca_retry_async has `except APIError` only.
Caught(variant, e) == variant = "alpaca_retry" \/ e.cls = "APIError"

Classified(e) == IF is_rate_limit_error(e) THEN "true" ELSE "false"

\* The wait between two attempts: tenacity's default sleep and the
\* wrapper's time.sleep(actual_wait).
wait_primitive(variant) == "time.sleep"

\* Does the primitive give the thread back to the event loop?
Suspends(primitive) == primitive = "asyncio.sleep"

\* min_wait, max_wait and multiplier of the wrapper, which are the min, max
\* and multiplier given to wait_random_exponential, in seconds.
min_wait == 1
max_wait == 60
multiplier == 1

\* Waits are counted in tenths of a second.
Tenths(seconds) == 10 * seconds

Min(a, b) == IF a <= b THEN a ELSE b
Max(a, b) == IF a >= b THEN a ELSE b

\* tenacity's wait_exponential(multiplier, min, max) after attempt_number:
\* max(min, min(multiplier * 2 ** (attempt_number - 1), max)).
wait_exponential(attempt_number) ==
    Max(min_wait, Min(multiplier * 2^(attempt_number - 1), max_wait))

\* wait=wait_random_exponential(multiplier=1, min=1, max=60): a uniform draw
\* below the exponential wait ("full jitter"), min + uniform(0, high - min);
\* the releases of tenacity before the min was added draw uniform(0, high).
\* The least, the middle and the greatest draw stand for the interval.
wait_random_exponential(attempt_number) ==
    LET high == wait_exponential(attempt_number)
    IN  {0, Tenths(min_wait), Tenths(min_wait + high) \div 2, Tenths(high)}

\* The wrapper of alpaca_retry_async:
\* wait_time = min(max_wait, min_wait * (2 ** (attempt - 1)) * multiplier),
\* actual_wait = wait_time * random.uniform(0.8, 1.2).
actual_wait(attempt) ==
    LET wait == Min(max_wait, min_wait * (2^(attempt - 1)) * multiplier)
    IN  {(8 * Tenths(wait)) \div 10, Tenths(wait), (12 * Tenths(wait)) \div 10}

\* The waits the variant can take after the attempt.
Waits(variant, attempt_number) ==
    IF variant = "alpaca_retry" THEN wait_random_exponential(attempt_number)
    ELSE actual_wait(attempt_number)

\* The variant's decision after attempt attempt_number has raised e:
\* TRUE = wait and call again, FALSE = raise e to the caller.
Retries(variant, e, attempt_number) ==
    /\ Caught(variant, e)
    /\ is_rate_limit_error(e)
    /\ ~stop_after_attempt(attempt_number)

\* The decorated function is called.
wrapped_call ==
    \E variant \in Variants :
        /\ Enter(Call(variant, "-", "-"))
        /\ pc' = "invoke"
        /\ verdict' = "none"
        /\ wait_time' = 0
        /\ UNCHANGED <<store, result, tx, catalogue, pages, given, tasks, ticks, symbols, master, task>>

\* The operation raises e.
OperationRaises ==
    /\ pc = "invoke"
    /\ call.op \in Variants
    /\ \E e \in RaisableAny(Len(outcomes) + 1) :
        /\ outcomes' = Append(outcomes, e)
        /\ verdict' = IF Caught(call.op, e) THEN Classified(e) ELSE "none"
        /\ IF Retries(call.op, e, Len(outcomes) + 1)
           THEN /\ pc' = "wait"
                /\ exc' = e
                /\ result' = result
                /\ wait_time' \in Waits(call.op, Len(outcomes) + 1)
           ELSE /\ pc' = "done"
                /\ exc' = NoError
                /\ result' = Raised(e)
                /\ wait_time' = 0
    /\ UNCHANGED <<store, store0, clock, call, df, prev, tx, catalogue, pages,
                   page_token, all_contracts, given, tasks, ticks, cancelled, symbols, requests, master, task>>

\* The operation returns its value.
OperationReturns ==
    /\ pc = "invoke"
    /\ call.op \in Variants
    /\ outcomes' = Append(outcomes, Ok(Len(outcomes) + 1))
    /\ result' = Returned(1)
    /\ pc' = "done"
    /\ UNCHANGED <<store, store0, clock, call, exc, df, prev, tx, catalogue,
                   pages, page_token, all_contracts, given, tasks, verdict, ticks,
                   cancelled, symbols, wait_time, requests, master, task>>

\* Another task of the event loop that runs the wrapper of
\* alpaca_retry_async takes a step: it can while the wrapper is suspended
\* at `await func(...)`, in a wait that suspends, or finished.
OtherTask ==
    /\ call.op = "alpaca_retry_async"
    /\ ticks < MaxTicks
    /\ \/ pc = "invoke"
       \/ pc = "wait" /\ Suspends(wait_primitive(call.op))
       \/ pc = "done"
    /\ ticks' = ticks + 1
    /\ UNCHANGED <<store, store0, clock, pc, call, outcomes, exc, df, result,
                   prev, tx, catalogue, pages, page_token, all_contracts,
                   given, tasks, verdict, cancelled, symbols, wait_time, requests, master, task>>

\* fetch_stock_historical, fetch_crypto_historical, fetch_option_historical,
\* fetch_news_articles, fetch_assets: one request, then the normaliser.
FetchReturns ==
    /\ pc = "invoke"
    /\ call.op # "sync_option_contracts"
    /\ df' = Normalise(call.op, catalogue, call.arg)
    /\ outcomes' = Append(outcomes, Ok(Len(outcomes) + 1))
    /\ pc' = "fetched"
    /\ UNCHANGED <<store, store0, clock, call, exc, result, prev, tx, catalogue, pages,
                   page_token, all_contracts, given, tasks, verdict, ticks, cancelled, symbols, wait_time, requests, master, task>>

\* all_contracts.extend(response.option_contracts)
extend(contracts, page) == contracts \o page

\* A loop that never asks for a further page.
while_never(token) == FALSE

\* `while next_page_token:`
while_next_page_token(token) == token # None

\* fetch_option_contracts: a page arrives.  With a continuation token the
\* token is written into the request and the next page is asked for;
\* without one the accumulated contracts become the DataFrame.
PageReturns ==
    /\ pc \in {"invoke", "page"}
    /\ call.op = "sync_option_contracts"
    /\ LET got == extend(IF pc = "invoke" THEN <<>> ELSE all_contracts,
                         option_contracts_of(page_token))
           next == next_page_token(page_token)
       IN  /\ all_contracts' = got
           /\ requests' = Append(IF pc = "invoke" THEN <<>> ELSE requests,
                                 page_token)
           /\ IF while_next_page_token(next)
              THEN /\ page_token' = next
                   /\ pc' = "page"
                   /\ UNCHANGED <<df, outcomes>>
              ELSE /\ page_token' = page_token
                   /\ pc' = "fetched"
                   /\ df' = MasterFrame(got)
                   /\ outcomes' = Append(outcomes, Ok(Len(outcomes) + 1))
    /\ UNCHANGED <<store, store0, clock, call, exc, result, prev, tx, catalogue, pages,
                   given, tasks, verdict, ticks, cancelled, symbols, wait_time, master, task>>

(***************************************************************************)
(* services/historical.py and services/symbol_sync.py                      *)
(***************************************************************************)
\* ingest_stock / ingest_crypto / ingest_option(request): up to the fetch.
ingest_bars(op, timeframe) ==
    /\ Enter(Call(op, timeframe, "AlpacaClientFactory"))
    /\ pc' = "invoke"
    /\ pages' = <<>>
    /\ UNCHANGED <<store, result, tx, catalogue, given, tasks, verdict, ticks, symbols, wait_time, master, task>>

ingest_stock == \E tf \in Timeframes : ingest_bars("ingest_stock", tf)

ingest_crypto == \E tf \in Timeframes : ingest_bars("ingest_crypto", tf)

ingest_option == \E tf \in Timeframes : ingest_bars("ingest_option", tf)

ingest_news ==
    /\ Enter(Call("ingest_news", "-", "AlpacaClientFactory"))
    /\ pc' = "invoke"
    /\ pages' = <<>>
    /\ UNCHANGED <<store, result, tx, catalogue, given, tasks, verdict, ticks, symbols, wait_time, master, task>>

\* sync_assets(asset_class): the trading client, then the filter.
sync_assets ==
    \E factory \in Factories, asset_class \in AssetClasses :
        /\ Enter(Call("sync_assets", asset_class, factory))
        /\ IF ~HasTrading(factory)
           THEN /\ pc' = "done"
                /\ result' = Raised(Error("AttributeError", Null, 0))
           ELSE IF ~ValidAssetClass(asset_class)
           THEN /\ pc' = "done"
                /\ result' = Raised(Error("ValueError", Null, 0))
           ELSE /\ pc' = "invoke"
                /\ result' = NoResult
        /\ pages' = <<>>
        /\ UNCHANGED <<store, tx, catalogue, given, tasks, verdict, ticks, symbols, wait_time, master, task>>

\* sync_option_contracts(underlying_symbols, ...): the trading client, a
\* new request (no page token), then the fetch.
sync_option_contracts ==
    \E factory \in Factories, chain \in Pagings(catalogue) :
        /\ Enter(Call("sync_option_contracts", "-", factory))
        /\ pages' = IF HasTrading(factory) THEN chain ELSE <<>>
        /\ IF ~HasTrading(factory)
           THEN /\ pc' = "done"
                /\ result' = Raised(Error("AttributeError", Null, 0))
           ELSE /\ pc' = "invoke"
                /\ result' = NoResult
        /\ UNCHANGED <<store, tx, catalogue, given, tasks, verdict, ticks, symbols, wait_time, master, task>>

\* The service after the fetch: nothing to store, or stamp (ingest_* only)
\* and hand the DataFrame to the repository.
Store ==
    /\ pc = "fetched"
    /\ IF empty(df)
       THEN /\ result' = Returned(0)
            /\ pc' = "done"
            /\ UNCHANGED <<df, tx, symbols, wait_time, requests, master, task>>
       ELSE /\ df' = IF call.op \in IngestOps
                     THEN WithColumn(df, "ingested_at", clock)
                     ELSE df
            /\ upsert(TableOf(call.op), df', clock)
    /\ UNCHANGED <<store, store0, clock, call, outcomes, exc, prev, catalogue, pages,
                   page_token, all_contracts, given, tasks, verdict, ticks, cancelled, symbols, wait_time, requests, master, task>>

(***************************************************************************)
(* Ingestions of different asset classes as tasks of one event loop.  A    *)
(* task runs alone from one await to the next; the awaits of ingest_* are  *)
(* those of the repository's transaction.                                  *)
(***************************************************************************)
IdleTask ==
    [pc |-> "idle", records |-> <<>>, rows |-> {}, result |-> NoResult]

\* ingest_*(request) up to its first await: the fetch (with its retries,
\* which block the loop), the empty check, the stamp, the records.
task_ingest(op) ==
    /\ tasks[op].pc = "idle"
    /\ \E timeframe \in {"1Day"}, e \in {NoError, APIError(500, 1)} :
        LET dataframe == Normalise(op, catalogue, timeframe)
            stamped == WithColumn(dataframe, "ingested_at", clock)
        IN  tasks' = [tasks EXCEPT ![op] =
                IF e # NoError
                THEN [@ EXCEPT !.pc = "done", !.result = Raised(e)]
                ELSE IF empty(dataframe)
                THEN [@ EXCEPT !.pc = "done", !.result = Returned(0)]
                ELSE [@ EXCEPT !.pc = "begin",
                               !.records = _to_records(
                                   WithDefaultColumn(stamped, "ingested_at",
                                                     clock))]]
    /\ clock' = clock + 1
    /\ UNCHANGED <<store, store0, pc, call, outcomes, exc, df, result, prev,
                   tx, catalogue, pages, page_token, all_contracts, given,
                   verdict, ticks, cancelled, symbols, wait_time, requests, master, task>>

\* async with self._engine.begin() as connection
task_begin(op) ==
    /\ tasks[op].pc = "begin"
    /\ tasks' = [tasks EXCEPT ![op].pc = "execute",
                              ![op].rows = store[TableOf(op)]]
    /\ UNCHANGED <<store, store0, clock, pc, call, outcomes, exc, df, result,
                   prev, tx, catalogue, pages, page_token, all_contracts,
                   given, verdict, ticks, cancelled, symbols, wait_time, requests, master, task>>

\* await connection.execute(statement): done, or failed.
task_execute(op) ==
    /\ tasks[op].pc = "execute"
    /\ \/ /\ DistinctKeys(TableOf(op), tasks[op].records)
          /\ tasks' = [tasks EXCEPT
                ![op].pc = "commit",
                ![op].rows = on_conflict_do_update(
                    tasks[op].rows, TableOf(op), tasks[op].records)]
       \/ tasks' = [tasks EXCEPT ![op].pc = "rollback"]
    /\ UNCHANGED <<store, store0, clock, pc, call, outcomes, exc, df, result,
                   prev, tx, catalogue, pages, page_token, all_contracts,
                   given, verdict, ticks, cancelled, symbols, wait_time, requests, master, task>>

\* The block is left: commit and return len(records), or rollback and the
\* exception.
task_leave(op) ==
    /\ tasks[op].pc \in {"commit", "rollback"}
    /\ IF tasks[op].pc = "commit"
       THEN /\ store' = [store EXCEPT ![TableOf(op)] =
                            Committed(store[TableOf(op)], tasks[op].rows)]
            /\ tasks' = [tasks EXCEPT
                  ![op].pc = "done",
                  ![op].result = Returned(Len(tasks[op].records))]
       ELSE /\ store' = [store EXCEPT ![TableOf(op)] =
                            RolledBack(store[TableOf(op)], tasks[op].rows)]
            /\ tasks' = [tasks EXCEPT
                  ![op].pc = "done",
                  ![op].result = Raised(StorageError)]
    /\ UNCHANGED <<store0, clock, pc, call, outcomes, exc, df, result, prev,
                   tx, catalogue, pages, page_token, all_contracts, given,
                   verdict, ticks, cancelled, symbols, wait_time, requests, master, task>>

(***************************************************************************)
(* Cancellation of a service call by its caller.                           *)
(***************************************************************************)
CancelledError == Error("CancelledError", Null, 0)

\* While the fetcher is in a retry wait the caller cancels the task of the
\* call, or the deadline of its asyncio.wait_for passes.  The wait is
\* tenacity's time.sleep inside the coroutine, so the request stays pending.
Cancel ==
    /\ pc = "wait"
    /\ call.op \in IngestOps \cup SyncOps
    /\ cancelled = Null
    /\ cancelled' = Len(outcomes)
    /\ UNCHANGED <<store, store0, clock, pc, call, outcomes, exc, df, result,
                   prev, tx, catalogue, pages, page_token, all_contracts,
                   given, tasks, verdict, ticks, symbols, wait_time, requests, master, task>>

\* The pending cancellation reaches the coroutine at its first await,
\* `async with self._engine.begin()`: CancelledError leaves the call
\* before the statement is executed.
CancelledAtAwait ==
    /\ pc = "begin"
    /\ cancelled # Null
    /\ result' = Raised(CancelledError)
    /\ tx' = NoTx
    /\ pc' = "done"
    /\ UNCHANGED <<store, store0, clock, call, outcomes, exc, df, prev,
                   catalogue, pages, page_token, all_contracts, given, tasks,
                   verdict, ticks, cancelled, symbols, wait_time, requests, master, task>>

(***************************************************************************)
(* The repository called directly.                                         *)
(***************************************************************************)
upsert_direct ==
    /\ Enter(Call("upsert", "-", "-"))
    /\ upsert(given.table, given.df, clock')
    /\ UNCHANGED <<store, catalogue, pages, given, tasks, verdict, ticks, symbols, wait_time, master, task>>

(***************************************************************************)
(* The symbols column on its way from the response to the statement.       *)
(***************************************************************************)
\* fetch_news_articles: dataframe["symbols"] = symbols_series.map(...)
map_normalize_symbols ==
    /\ symbols.pc = "response"
    /\ symbols' = [symbols EXCEPT !.pc = "dataframe", !.fetched = TRUE,
                      !.dataframe = news_normalize_symbols(symbols.value)]
    /\ UNCHANGED <<store, store0, clock, pc, call, outcomes, exc, df, result,
                   prev, tx, catalogue, pages, page_token, all_contracts,
                   given, tasks, verdict, ticks, cancelled, wait_time, requests, master, task>>

\* upsert_news on the DataFrame of fetch_news_articles:
\* payload["symbols"] = symbols_series.apply(...)
apply_normalize_symbols ==
    /\ symbols.pc = "dataframe"
    /\ symbols' = [symbols EXCEPT !.pc = "records",
                      !.records = postgres_normalize_symbols(
                                      ListOfStr(symbols.dataframe))]
    /\ UNCHANGED <<store, store0, clock, pc, call, outcomes, exc, df, result,
                   prev, tx, catalogue, pages, page_token, all_contracts,
                   given, tasks, verdict, ticks, cancelled, wait_time, requests, master, task>>

\* upsert_news on a DataFrame that did not pass through the fetcher.
apply_normalize_symbols_direct ==
    /\ symbols.pc = "response"
    /\ symbols' = [symbols EXCEPT !.pc = "records",
                      !.records = postgres_normalize_symbols(symbols.value)]
    /\ UNCHANGED <<store, store0, clock, pc, call, outcomes, exc, df, result,
                   prev, tx, catalogue, pages, page_token, all_contracts,
                   given, tasks, verdict, ticks, cancelled, wait_time, requests, master, task>>

(***************************************************************************)
(* tasks/fetch.py: execute_task.                                           *)
(***************************************************************************)
Kinds ==
    {"stock", "crypto", "option", "news", "sync-assets", "sync-options",
     "unknown"}

NoTask ==
    [pc |-> "none", kind |-> "none", symbols |-> FALSE, engine |-> "none",
     result |-> NoResult]

\* execute_task(kind, settings, args): the repository (its engine) and the
\* client factory are created.  symbols: does the request name symbols
\* (args.symbols or the settings' default)?
execute_task ==
    /\ task.pc = "none"
    /\ \E kind \in Kinds, named \in BOOLEAN :
          task' = [pc |-> "ensure_schema", kind |-> kind, symbols |-> named,
                   engine |-> "created", result |-> NoResult]
    /\ UNCHANGED <<store, store0, clock, pc, call, outcomes, exc, df, result,
                   prev, tx, catalogue, pages, page_token, all_contracts,
                   given, tasks, verdict, ticks, cancelled, symbols,
                   wait_time, requests, master>>

\* await repository.ensure_schema() returns: the try block is entered.
ensure_schema ==
    /\ task.pc = "ensure_schema"
    /\ task' = [task EXCEPT !.pc = "try"]
    /\ UNCHANGED <<store, store0, clock, pc, call, outcomes, exc, df, result,
                   prev, tx, catalogue, pages, page_token, all_contracts,
                   given, tasks, verdict, ticks, cancelled, symbols,
                   wait_time, requests, master>>

\* await repository.ensure_schema() raises (no connection, no permission):
\* the call is before the try, the error leaves execute_task at once.
ensure_schema_raises ==
    /\ task.pc = "ensure_schema"
    /\ task' = [task EXCEPT !.pc = "done", !.result = Raised(StorageError)]
    /\ UNCHANGED <<store, store0, clock, pc, call, outcomes, exc, df, result,
                   prev, tx, catalogue, pages, page_token, all_contracts,
                   given, tasks, verdict, ticks, cancelled, symbols,
                   wait_time, requests, master>>

\* Does the try block raise ValueError before it calls a service?  The bar
\* requests need symbols, sync-options needs --symbols, and a kind that is
\* none of the six is refused.
Refused(kind, named) ==
    \/ kind \in {"stock", "crypto", "option", "sync-options"} /\ ~named
    \/ kind = "unknown"

\* What the service call of the kind can end with: a row count, an upstream
\* error, a storage error and, for the sync kinds, the error of the client
\* acquisition.
ServiceResults(kind) ==
    {Returned(n) : n \in 0..MaxItems}
    \cup {Raised(APIError(500, 1)), Raised(StorageError)}
    \cup (IF kind \in {"sync-assets", "sync-options"}
          THEN {Raised(Error("AttributeError", Null, 0))} ELSE {})

\* The try block: the request is built and the service awaited; control
\* goes to the finally clause with the value or the error.
try ==
    /\ task.pc = "try"
    /\ \E r \in IF Refused(task.kind, task.symbols)
                THEN {Raised(Error("ValueError", Null, 0))}
                ELSE ServiceResults(task.kind) :
          task' = [task EXCEPT !.pc = "finally", !.result = r]
    /\ UNCHANGED <<store, store0, clock, pc, call, outcomes, exc, df, result,
                   prev, tx, catalogue, pages, page_token, all_contracts,
                   given, tasks, verdict, ticks, cancelled, symbols,
                   wait_time, requests, master>>

\* finally: await repository.dispose()
dispose ==
    /\ task.pc = "finally"
    /\ task' = [task EXCEPT !.pc = "done", !.engine = "disposed"]
    /\ UNCHANGED <<store, store0, clock, pc, call, outcomes, exc, df, result,
                   prev, tx, catalogue, pages, page_token, all_contracts,
                   given, tasks, verdict, ticks, cancelled, symbols,
                   wait_time, requests, master>>

(***************************************************************************)
(* Initial states.                                                         *)
(***************************************************************************)
\* A row written by an earlier run: key 1, older values, an older instant.
StaleRow(t) ==
    [c \in table_c(t) |->
        CASE c = "symbol" -> "AAPL"
          [] c = "timeframe" -> "1Day"
          [] c = "source" -> "alpaca"
          [] c \in {"timestamp", "id"} -> 1
          [] c \in {required_column(t), nullable_column(t)} -> 1
          [] c = "ingested_at" -> 0
          [] OTHER -> Null]

InitStores == {[t \in Tables |-> {}], [t \in Tables |-> {StaleRow(t)}]}

\* The rows a direct caller may hand to upsert_*: keys 1..2, values 1..2.
GivenRow(t, cols, k, v) ==
    [c \in cols |->
        CASE c = "symbol" -> "AAPL"
          [] c = "timeframe" -> "1Day"
          [] c = "source" -> "alpaca"
          [] c \in {"timestamp", "id"} -> k
          [] c = required_column(t) -> v
          [] OTHER -> 1]

GivenColumns(t) ==
    {conflict_columns(t) \cup {required_column(t), "source"} \cup opt :
        opt \in SUBSET {nullable_column(t), "ingested_at"}}

Givens ==
    UNION {
        {[table |-> t,
          df |-> DataFrame(cols,
                    [i \in 1..n |-> GivenRow(t, cols, kv[i][1], kv[i][2])])] :
            kv \in [1..n -> (1..2) \X (1..2)]} :
        t \in Tables, cols \in UNION {GivenColumns(u) : u \in Tables},
        n \in 0..MaxRecs}
    \cup {[table |-> t, df |-> NoFrame] : t \in Tables}

InitLocals ==
    /\ clock = 1
    /\ pc = "idle"
    /\ call = NoCall
    /\ outcomes = <<>>
    /\ exc = NoError
    /\ df = NoFrame
    /\ result = NoResult
    /\ prev = NoCall
    /\ tx = NoTx
    /\ page_token = None
    /\ all_contracts = <<>>
    /\ verdict = "none"
    /\ ticks = 0
    /\ cancelled = Null
    /\ tasks = [op \in IngestOps |-> IdleTask]
    /\ wait_time = 0
    /\ requests = <<>>

Init ==
    /\ store \in InitStores
    /\ store0 = store
    /\ catalogue \in Catalogues
    /\ pages = <<>>
    /\ given = [table |-> "none", df |-> NoFrame]
    /\ InitLocals
    /\ symbols = NoSymbols
    /\ master = NoMaster
    /\ task = NoTask

InitRepo ==
    /\ store \in InitStores
    /\ store0 = store
    /\ catalogue = <<>>
    /\ pages = <<>>
    /\ given \in {g \in Givens :
                    g.df = NoFrame \/ g.df.columns \in GivenColumns(g.table)}
    /\ InitLocals
    /\ symbols = NoSymbols
    /\ master = NoMaster
    /\ task = NoTask

Next ==
    \/ ingest_stock
    \/ ingest_crypto
    \/ ingest_option
    \/ ingest_news
    \/ sync_assets
    \/ sync_option_contracts
    \/ FetchRaises
    \/ RetrySleep
    \/ FetchReturns
    \/ PageReturns
    \/ Store
    \/ Begin
    \/ Execute
    \/ ExecuteFails
    \/ Commit
    \/ Rollback

\* The repository called directly with DataFrames whose ingested_at column,
\* when they have one, may miss the value of some rows (NaT).
WithMissing(d, missing) ==
    DataFrame(d.columns,
              [i \in DOMAIN d.rows |->
                  [c \in d.columns |->
                      IF c = "ingested_at" /\ i \in missing THEN Null
                      ELSE d.rows[i][c]]])

InitStamp ==
    /\ store \in InitStores
    /\ store0 = store
    /\ catalogue = <<>>
    /\ pages = <<>>
    /\ \E g \in {h \in Givens : /\ h.df # NoFrame
                                /\ h.table \in {"stock_bars", "assets"}
                                /\ h.df.columns \in GivenColumns(h.table)} :
          \E missing \in SUBSET DOMAIN g.df.rows :
              given = [table |-> g.table, df |-> WithMissing(g.df, missing)]
    /\ InitLocals
    /\ symbols = NoSymbols
    /\ master = NoMaster
    /\ task = NoTask

\* The master normalisers alone, on every upstream object.
InitMasters ==
    /\ store = [t \in Tables |-> {}]
    /\ store0 = store
    /\ catalogue = <<>>
    /\ pages = <<>>
    /\ given = [table |-> "none", df |-> NoFrame]
    /\ InitLocals
    /\ symbols = NoSymbols
    /\ master \in
          {[NoMaster EXCEPT !.pc = "object", !.kind = "asset", !.object = o] :
              o \in UpstreamObjects(asset_optional)}
          \cup
          {[NoMaster EXCEPT !.pc = "object", !.kind = "contract", !.object = o] :
              o \in UpstreamObjects(contract_optional)}
    /\ task = NoTask

NextMasters ==
    \/ append_asset_record
    \/ append_contract_record

\* execute_task alone.
InitTask ==
    /\ store = [t \in Tables |-> {}]
    /\ store0 = store
    /\ catalogue = <<>>
    /\ pages = <<>>
    /\ given = [table |-> "none", df |-> NoFrame]
    /\ InitLocals
    /\ symbols = NoSymbols
    /\ master = NoMaster
    /\ task = NoTask

NextTask ==
    \/ execute_task
    \/ ensure_schema
    \/ ensure_schema_raises
    \/ try
    \/ dispose

NextRepo ==
    \/ upsert_direct
    \/ Begin
    \/ Execute
    \/ ExecuteFails
    \/ Commit
    \/ Rollback

InitRetry ==
    /\ store = [t \in Tables |-> {}]
    /\ store0 = store
    /\ catalogue = <<>>
    /\ pages = <<>>
    /\ given = [table |-> "none", df |-> NoFrame]
    /\ InitLocals
    /\ symbols = NoSymbols
    /\ master = NoMaster
    /\ task = NoTask

NextRetry ==
    \/ wrapped_call
    \/ OperationRaises
    \/ RetrySleep
    \/ OperationReturns
    \/ OtherTask

\* The service calls of Spec against a provider of at most one item, with
\* a caller that may cancel.
InitCancel ==
    /\ Init
    /\ Len(catalogue) <= 1

NextCancel ==
    \/ Next
    \/ Cancel
    \/ CancelledAtAwait

InitConcurrent ==
    /\ Init
    /\ Len(catalogue) \in {0, 2}

NextConcurrent ==
    \E op \in IngestOps :
        \/ task_ingest(op)
        \/ task_begin(op)
        \/ task_execute(op)
        \/ task_leave(op)

\* ingest_stock alone, on responses in any timezone.
InitStock ==
    /\ store \in InitStores
    /\ store0 = store
    /\ catalogue \in StockResponses
    /\ pages = <<>>
    /\ given = [table |-> "none", df |-> NoFrame]
    /\ InitLocals
    /\ symbols = NoSymbols
    /\ master = NoMaster
    /\ task = NoTask

NextStock ==
    \/ ingest_stock
    \/ FetchRaises
    \/ RetrySleep
    \/ FetchReturns
    \/ Store
    \/ Begin
    \/ Execute
    \/ ExecuteFails
    \/ Commit
    \/ Rollback

\* The symbols column alone, on every symbols value.
InitSymbols ==
    /\ store = [t \in Tables |-> {}]
    /\ store0 = store
    /\ catalogue = <<>>
    /\ pages = <<>>
    /\ given = [table |-> "none", df |-> NoFrame]
    /\ InitLocals
    /\ symbols \in {[NoSymbols EXCEPT !.value = v, !.pc = "response"] :
                        v \in SymbolsValues}
    /\ master = NoMaster
    /\ task = NoTask

NextSymbols ==
    \/ map_normalize_symbols
    \/ apply_normalize_symbols
    \/ apply_normalize_symbols_direct

Spec == Init /\ [][Next]_vars

SpecSymbols == InitSymbols /\ [][NextSymbols]_vars

SpecStamp == InitStamp /\ [][NextRepo]_vars

SpecMasters == InitMasters /\ [][NextMasters]_vars

SpecTask == InitTask /\ [][NextTask]_vars

SpecStock == InitStock /\ [][NextStock]_vars

SpecConcurrent == InitConcurrent /\ [][NextConcurrent]_vars

SpecCancel == InitCancel /\ [][NextCancel]_vars

SpecRetry == InitRetry /\ [][NextRetry]_vars

SpecRepo == InitRepo /\ [][NextRepo]_vars

(***************************************************************************)
(* Properties of utils/retry.py.                                           *)
(***************************************************************************)
\* The value the service holds once the fetcher has returned.
FetcherValue ==
    IF call.op = "sync_option_contracts"
    THEN MasterFrame(all_contracts)
    ELSE Normalise(call.op, catalogue, call.arg)

\* C1: an operation wrapped by alpaca_retry is invoked at most 5 times;
\* every invocation before the last one failed with status 429; when the
\* caller gets a 429 error the operation has been invoked exactly 5 times
\* and the error is the 5th invocation's; when the k-th invocation returns
\* (k in 1..5) the operation has been invoked exactly k times and the
\* value the caller holds is that invocation's.
C1_RetryBound ==
    Decorated(call.op) =>
        /\ Len(outcomes) <= max_attempts
        /\ \A i \in DOMAIN outcomes : outcomes[i].at = i
        /\ \A i \in 1..(Len(outcomes) - 1) :
              outcomes[i].cls # "ok" /\ outcomes[i].status_code = 429
        /\ (pc = "done" /\ outcomes # <<>>
                /\ Last(outcomes).status_code = 429) =>
              /\ Len(outcomes) = max_attempts
              /\ result = Raised(outcomes[max_attempts])
        /\ (pc = "wait") =>
              /\ Last(outcomes).status_code = 429
              /\ Len(outcomes) < max_attempts
        /\ (pc = "fetched") =>
              /\ Last(outcomes) = Ok(Len(outcomes))
              /\ df = FetcherValue

\* Five rate-limit failures in a row: the caller has the fifth.
C1_Witness ==
    /\ Decorated(call.op)
    /\ pc = "done"
    /\ Len(outcomes) = 5
    /\ \A i \in 1..5 : outcomes[i] = APIError(429, i)
    /\ result = Raised(APIError(429, 5))

\* C2: when an invocation of an operation wrapped by alpaca_retry fails
\* with anything but status 429, at whichever attempt, that invocation is
\* the last one, no wait follows, and the caller gets that very error.
C2_FatalNotRetried ==
    Decorated(call.op) =>
        \A i \in DOMAIN outcomes :
            (outcomes[i].cls # "ok" /\ outcomes[i].status_code # 429) =>
                /\ i = Len(outcomes)
                /\ pc = "done"
                /\ exc = NoError
                /\ result = Raised(outcomes[i])

\* Two rate-limit failures, then a status 500 at the third attempt.
C2_Witness ==
    /\ Decorated(call.op)
    /\ pc = "done"
    /\ outcomes = <<APIError(429, 1), APIError(429, 2), APIError(500, 3)>>
    /\ result = Raised(APIError(500, 3))

(***************************************************************************)
(* Properties of services/historical.py with the fetchers.                 *)
(***************************************************************************)
\* C3: in each of ingest_stock, ingest_crypto, ingest_option and
\* ingest_news the fetch runs under the retry policy: the caller never gets
\* a rate-limit error from an attempt before the fifth.
C3_EveryIngestionRetries ==
    (/\ call.op \in IngestOps
     /\ pc = "done"
     /\ result.kind = "raised"
     /\ result.error.status_code = 429) =>
        result.error.at = max_attempts

(***************************************************************************)
(* Properties of repository/postgres.py.                                   *)
(***************************************************************************)
\* The records of the current upsert call as the statement receives them.
GivenRecords ==
    _to_records(WithDefaultColumn(given.df, "ingested_at", clock))

GivenKeys ==
    {KeyOf(given.table, Proposed(given.table, GivenRecords[i])) :
        i \in DOMAIN GivenRecords}

\* The rows of the table that hold one of the record set's keys.
RowsKeyedByGiven(rows) ==
    {r \in rows : KeyOf(given.table, r) \in GivenKeys}

\* The second of two successive upsert calls with the same records has
\* returned.
SecondUpsertReturned ==
    /\ call.op = "upsert"
    /\ prev.op = "upsert"
    /\ pc = "done"
    /\ result.kind = "returned"

UpsertReturned ==
    /\ call.op = "upsert"
    /\ pc = "done"
    /\ result.kind = "returned"
    /\ result.value > 0

\* C5: after an upsert every record of R is held by exactly one row with
\* its key, and that row has in every non-conflict column of the table the
\* record's value; a column the record does not supply holds the column's
\* default (NULL for a nullable column, the call's instant for
\* ingested_at), not the value the row had before.  This covers the rows
\* that existed and the records whose key was new.
C5_FullReplace ==
    UpsertReturned =>
        LET t == given.table
        IN  \A i \in DOMAIN given.df.rows :
                LET rec == given.df.rows[i]
                    held == {r \in store[t] : KeyOf(t, r) = KeyOf(t, rec)}
                IN  /\ Cardinality(held) = 1
                    /\ \A r \in held :
                        \A c \in table_c(t) \ conflict_columns(t) :
                            r[c] = IF c \in DOMAIN rec THEN rec[c]
                                   ELSE IF c = "ingested_at" THEN clock
                                   ELSE column_default(t, c)

\* The table held key 1 with a value in the nullable column; R brings keys
\* 1 and 2 without that column: the old row's nullable column is now NULL
\* and key 2 is a new row.
C5_Witness ==
    /\ UpsertReturned
    /\ nullable_column(given.table) \notin given.df.columns
    /\ GivenKeys = {KeyOf(given.table, StaleRow(given.table)),
                    KeyOf(given.table,
                          [StaleRow(given.table) EXCEPT
                              ![IF given.table \in BarTables
                                THEN "timestamp" ELSE "id"] = 2])}
    /\ store0[given.table] = {StaleRow(given.table)}
    /\ Cardinality(store[given.table]) = 2
    /\ \A r \in store[given.table] : r[nullable_column(given.table)] = Null

\* C6: while an upsert call is in its transaction the table is as it was
\* before the call; when the statement fails the caller gets the storage
\* error and the table is as it was before the call; when the call returns
\* every record of the call is in the table.
C6_AllOrNothing ==
    (call.op = "upsert") =>
        /\ (pc \in {"begin", "execute", "commit", "rollback"}) =>
              store = store0
        /\ (pc = "rollback") => exc = StorageError
        /\ (pc = "done" /\ result.kind = "raised") =>
              /\ result = Raised(StorageError)
              /\ store = store0
        /\ (pc = "done" /\ result.kind = "returned") =>
              \A i \in DOMAIN GivenRecords :
                  Proposed(given.table, GivenRecords[i])
                      \in store[given.table]

\* A statement of two records with two keys failed on a table that held a
\* row: the caller has the storage error and the table is as before.
C6_Witness ==
    /\ call.op = "upsert"
    /\ pc = "done"
    /\ result = Raised(StorageError)
    /\ Cardinality(GivenKeys) = 2
    /\ store0[given.table] # {}
    /\ store = store0

(***************************************************************************)
(* Properties of fetchers/option_contracts.py.                             *)
(***************************************************************************)
\* C7: the contracts fetch_option_contracts returns are every item of
\* every page of the provider's chain exactly once, in page order and then
\* in the order within the page.
C7_EveryPageOnceInOrder ==
    (call.op = "sync_option_contracts" /\ pc = "fetched") =>
        all_contracts = Flatten(pages)

\* C8: when a page request of the option-contract sync failed with status
\* 429 and the attempts after it succeeded, the DataFrame of the fetch
\* still holds every item of pages 1..n exactly once in page order.
C8_RetryKeepsEarlierPages ==
    (/\ call.op = "sync_option_contracts"
     /\ pc = "fetched"
     /\ \E i \in DOMAIN outcomes : outcomes[i] = APIError(429, i)) =>
        df = MasterFrame(Flatten(pages))

(***************************************************************************)
(* Properties of the services.                                             *)
(***************************************************************************)
\* The keys of the records the current ingestion has fetched.
FetchedKeys ==
    {KeyOf(TableOf(call.op), Proposed(TableOf(call.op), df.rows[i])) :
        i \in DOMAIN df.rows}

\* A bar ingestion has stored what it fetched.
BarIngestionReturned ==
    /\ call.op \in {"ingest_stock", "ingest_crypto", "ingest_option"}
    /\ pc = "done"
    /\ result.kind = "returned"
    /\ result.value > 0

\* Every fetched record is held by exactly one row, equal to the record in
\* every column.
StoredAsFetched ==
    LET t == TableOf(call.op)
    IN  \A i \in DOMAIN df.rows :
            /\ Proposed(t, df.rows[i]) \in store[t]
            /\ Cardinality({r \in store[t] :
                    KeyOf(t, r) = KeyOf(t, Proposed(t, df.rows[i]))}) = 1

\* C9 as stated: after the second of two successive bar ingestions of the
\* same upstream bars every stored column of the rows for those keys is
\* what it was after the first; and after any bar ingestion the stored row
\* of each key equals the fetched record in every non-key column.
C9_ReingestEveryColumn ==
    BarIngestionReturned =>
        /\ StoredAsFetched
        /\ (prev = call) =>
              LET t == TableOf(call.op)
              IN  {r \in store[t] : KeyOf(t, r) \in FetchedKeys}
                    = {r \in store0[t] : KeyOf(t, r) \in FetchedKeys}

\* C9 amended: after the second of two successive bar ingestions of the
\* same upstream bars every stored column other than ingested_at of the
\* rows for those keys is what it was after the first, and no row was
\* added; and after any bar ingestion the stored row of each key equals
\* the fetched record, stamped with that ingestion's instant, in every
\* non-key column.
C9_ReingestButIngestedAt ==
    BarIngestionReturned =>
        /\ StoredAsFetched
        /\ \A i \in DOMAIN df.rows : df.rows[i].ingested_at = clock
        /\ (prev = call) =>
              LET t == TableOf(call.op)
                  now == {r \in store[t] : KeyOf(t, r) \in FetchedKeys}
                  before == {r \in store0[t] : KeyOf(t, r) \in FetchedKeys}
                  Same(r, o) ==
                      \A c \in table_c(t) \ {"ingested_at"} : r[c] = o[c]
              IN  /\ Cardinality(store[t]) = Cardinality(store0[t])
                  /\ \A r \in now : \E o \in before : Same(r, o)
                  /\ \A o \in before : \E r \in now : Same(r, o)

\* The same two bars ingested twice with the timeframe of the row the
\* table held at first: the first ingestion replaced that row, the second
\* has returned and only moved the instants.
C9_Witness ==
    /\ BarIngestionReturned
    /\ prev = call
    /\ call.arg = "1Day"
    /\ Len(df.rows) = 2
    /\ Cardinality(store[TableOf(call.op)]) = 2
    /\ store[TableOf(call.op)] # store0[TableOf(call.op)]
    /\ \A r \in store[TableOf(call.op)] : r.close = 2 /\ r.ingested_at = clock

\* C10: in every ingest_* and sync_* operation, as long as the fetch has
\* not returned no transaction exists and the store is as it was before
\* the call; an operation that ends without a returned fetch ends with an
\* error at the caller, the fetch's own when the fetch raised it; a failed
\* upsert ends with the storage error at the caller and the store as
\* before; an operation never ends with anything but a row count after a
\* committed or empty fetch, or an error.
C10_ErrorsReachTheCaller ==
    (call.op \in IngestOps \cup SyncOps) =>
        LET fetched == outcomes # <<>> /\ Last(outcomes).cls = "ok"
        IN  /\ ~fetched => tx = NoTx /\ store = store0
            /\ (pc = "done" /\ ~fetched) =>
                  /\ result.kind = "raised"
                  /\ result.value = 0
                  /\ outcomes # <<>> => result.error = Last(outcomes)
            /\ (pc = "rollback") => fetched /\ exc = StorageError
            /\ (pc = "done" /\ fetched /\ result.kind # "returned") =>
                  /\ result.kind = "raised"
                  /\ result.error = StorageError
                  /\ store = store0
            /\ (pc = "done" /\ result.kind = "returned") => fetched

\* A sync whose fetch went through after one rate-limit failure and whose
\* upsert statement then failed: the caller has the storage error.
C10_Witness ==
    /\ call.op \in SyncOps
    /\ pc = "done"
    /\ outcomes = <<APIError(429, 1), Ok(2)>>
    /\ result.kind = "raised"
    /\ result.error = StorageError
    /\ store = store0

\* The fetch of the current service call has returned.
Fetched == outcomes # <<>> /\ Last(outcomes).cls = "ok"

\* C11: an ingest_* or sync_* operation whose fetched and normalised
\* record set has no rows goes from the fetch straight to its return: no
\* transaction is opened, the store stays as it was before the call, and
\* the value returned is 0.
C11_EmptyFetchTouchesNothing ==
    (call.op \in IngestOps \cup SyncOps /\ Fetched /\ df.rows = <<>>) =>
        /\ pc \in {"fetched", "done"}
        /\ tx = NoTx
        /\ store = store0
        /\ (pc = "done") => result = Returned(0)

\* The provider has nothing, the tables hold rows of an earlier run, and
\* the operation has returned 0.
C11_Witness ==
    /\ call.op \in IngestOps \cup SyncOps
    /\ Fetched
    /\ df.rows = <<>>
    /\ pc = "done"
    /\ result = Returned(0)
    /\ store[TableOf(call.op)] # {}
    /\ store = store0

\* C12: upsert_bars, upsert_news, upsert_assets and upsert_option_contracts
\* called with a record set without rows return 0 at once: no transaction
\* is prepared or opened and every table is as it was before the call.
C12_EmptyUpsertIsNoOp ==
    (call.op = "upsert" /\ given.df.rows = <<>>) =>
        /\ pc = "done"
        /\ result = Returned(0)
        /\ tx = NoTx
        /\ store = store0

\* An upsert of a frame that has the table's columns and no rows, on a
\* table that holds a row, has returned 0.
C12_Witness ==
    /\ call.op = "upsert"
    /\ given.df.rows = <<>>
    /\ given.df.columns # {}
    /\ pc = "done"
    /\ result = Returned(0)
    /\ store[given.table] = {StaleRow(given.table)}

\* C13: sync_assets called with an asset-class token outside None, "all",
\* "us_equity" and "crypto" ends at once with a ValueError at the caller:
\* the fetcher is never invoked, no transaction is opened and the store is
\* as before the call.
C13_InvalidAssetClassIsValueError ==
    (call.op = "sync_assets" /\ ~ValidAssetClass(call.arg)) =>
        /\ pc = "done"
        /\ result.kind = "raised"
        /\ result.error.cls = "ValueError"
        /\ outcomes = <<>>
        /\ tx = NoTx
        /\ store = store0

\* C14: is_rate_limit_error is true exactly of the exceptions that have a
\* status_code equal to 429, whatever their class, and false of those with
\* another status code or with none: the verdict on the exception an
\* attempt has just raised is "true" if and only if its status_code is 429.
C14_RateLimitIffStatus429 ==
    (/\ call.op \in Variants
     /\ verdict # "none"
     /\ outcomes # <<>>
     /\ Last(outcomes).cls # "ok") =>
        /\ (verdict = "true") <=> (Last(outcomes).status_code = 429)
        /\ (verdict = "false") <=>
              (Last(outcomes).status_code = Null
                  \/ Last(outcomes).status_code # 429)

\* An exception that is not the provider's APIError and has status_code
\* 429 has been classified as a rate limit.
C14_Witness ==
    /\ call.op = "alpaca_retry"
    /\ outcomes # <<>>
    /\ Last(outcomes).cls = "DummyAPIError"
    /\ Last(outcomes).status_code = 429
    /\ verdict = "true"
    /\ pc = "wait"

\* C15: while alpaca_retry_async waits between two attempts, another task
\* of the same event loop can take a step.
C15_AsyncWaitSuspends ==
    (call.op = "alpaca_retry_async" /\ pc = "wait" /\ ticks < MaxTicks) =>
        ENABLED OtherTask

\* C16: once the caller has asked to cancel during a retry wait of an
\* ingest_* or sync_* call, the fetcher is not invoked again (the attempts
\* stay at their number at the request) and the store is as it was before
\* the call.
C16_CancelAbortsInTheWait ==
    (call.op \in IngestOps \cup SyncOps /\ cancelled # Null) =>
        /\ Len(outcomes) = cancelled
        /\ pc \in {"wait", "done"}
        /\ store = store0

\* C17: in every ingest_* and sync_* call, during the fetch with all its
\* attempts and retry waits the call has no transaction, open or prepared,
\* and the store holds what it held before the call; a transaction exists
\* only after the fetch has returned, and until it is committed the store
\* still holds what it held before the call.
C17_NoTransactionDuringWait ==
    (call.op \in IngestOps \cup SyncOps) =>
        /\ (pc \in {"invoke", "page", "wait", "fetched"}) =>
              /\ tx.open = FALSE
              /\ tx.records = <<>>
              /\ store = store0
        /\ (tx.open \/ tx.records # <<>>) =>
              /\ Fetched
              /\ pc \in {"begin", "execute", "commit", "rollback"}
              /\ store = store0

\* The second retry wait of a call that follows a call whose upsert was
\* committed.
C17_Witness ==
    /\ call.op \in IngestOps \cup SyncOps
    /\ pc = "wait"
    /\ Len(outcomes) = 2
    /\ prev.op \in IngestOps \cup SyncOps
    /\ store[TableOf(prev.op)] # {}
    /\ \E r \in store[TableOf(prev.op)] : r.ingested_at > 0
    /\ tx = NoTx
    /\ store = store0

(***************************************************************************)
(* Properties of concurrent ingestions.                                    *)
(***************************************************************************)
\* The table of op after op's ingestion alone, run on the initial store
\* with the records and the instant the task has.
Alone(op) ==
    IF tasks[op].result.kind = "returned" /\ tasks[op].result.value > 0
    THEN on_conflict_do_update(store0[TableOf(op)], TableOf(op),
                               tasks[op].records)
    ELSE store0[TableOf(op)]

\* C18: with ingest_stock, ingest_crypto, ingest_option and ingest_news
\* running concurrently in any interleaving, a table is written by its own
\* ingestion only: until that ingestion has finished the table is as it
\* was at the start, from then on it is what that ingestion run alone
\* produces, and the tables of no ingestion never change.
C18_ConcurrentEqualsAlone ==
    /\ \A op \in IngestOps :
          store[TableOf(op)] = IF tasks[op].pc = "done" THEN Alone(op)
                               ELSE store0[TableOf(op)]
    /\ \A t \in Tables \ {TableOf(op) : op \in IngestOps} :
          store[t] = store0[t]

\* All four ingestions have run interleaved (the stock ingestion started
\* first and committed last), three committed rows over a table that held
\* a row, one failed at its statement.
C18_Witness ==
    /\ \A op \in IngestOps : tasks[op].pc = "done"
    /\ \A op \in IngestOps \ {"ingest_news"} :
          /\ tasks[op].result = Returned(2)
          /\ store[TableOf(op)] # store0[TableOf(op)]
          /\ store0[TableOf(op)] # {}
    /\ tasks["ingest_news"].result = Raised(StorageError)
    /\ \E r \in store["stock_bars"] : r.ingested_at = 1
    /\ \E r \in store["crypto_bars"] : r.ingested_at = 4

(***************************************************************************)
(* Properties of ingest_stock.                                             *)
(***************************************************************************)
\* The instant of a bar of the response, in UTC.
InstantOf(item) == IF item.tz = Null THEN item.id ELSE item.id - item.tz

\* The stock_bars rows that hold a key of the response under the request's
\* timeframe.
StockRowsOfResponse(rows) ==
    {r \in rows :
        /\ r.symbol = "AAPL"
        /\ r.timeframe = call.arg
        /\ \E i \in DOMAIN catalogue : r.timestamp = InstantOf(catalogue[i])}

\* C19: ingest_stock of a response of n >= 1 bars with distinct keys, into
\* a store without rows for those keys, returns n and leaves exactly n rows
\* for those keys, each with source "alpaca", the request's timeframe token
\* and the bar's instant in UTC as timestamp.
C19_StockIngestStoresNormalisedBars ==
    (/\ call.op = "ingest_stock"
     /\ pc = "done"
     /\ result.kind = "returned"
     /\ StockRowsOfResponse(store0["stock_bars"]) = {}) =>
        /\ result.value = Len(catalogue)
        /\ Cardinality(StockRowsOfResponse(store["stock_bars"]))
              = Len(catalogue)
        /\ \A i \in DOMAIN catalogue :
              \E r \in store["stock_bars"] :
                  /\ r.timestamp = InstantOf(catalogue[i])
                  /\ r.timeframe = call.arg
                  /\ r.source = "alpaca"
                  /\ r.close = catalogue[i].val
        /\ \A r \in store["stock_bars"] \ store0["stock_bars"] :
              /\ r \in StockRowsOfResponse(store["stock_bars"])
              /\ r.source = "alpaca"

\* Two bars stamped 06:00 and 07:00 at UTC+5 were ingested with timeframe
\* "5Min" next to a row of an earlier run: the rows hold 01:00 and 02:00.
C19_Witness ==
    /\ call.op = "ingest_stock"
    /\ call.arg = "5Min"
    /\ pc = "done"
    /\ result = Returned(2)
    /\ Len(catalogue) = 2
    /\ catalogue[1].tz = 5
    /\ store0["stock_bars"] = {StaleRow("stock_bars")}
    /\ {r.timestamp : r \in store["stock_bars"] \ store0["stock_bars"]}
          = {1, 2}

(***************************************************************************)
(* Properties of the symbols normalisers.                                  *)
(***************************************************************************)
\* A symbols value is missing: None or a NaN float.
Missing(value) == value = PyNone \/ value = PyFloat("nan")

\* Every list[str] computed from the current symbols value so far.
Normalised ==
    (IF symbols.fetched THEN {symbols.dataframe} ELSE {})
    \cup (IF symbols.pc = "records" THEN {symbols.records} ELSE {})

\* The elements of a list or tuple that are not None.
NonNull(items) == SelectSeq(items, LAMBDA item : item.type # "NoneType")

\* C20 as stated: the symbols value is always normalised to a list of
\* strings; a missing (None or NaN) value becomes the empty list, a scalar
\* becomes the one-element list of its string, and a list or tuple becomes
\* the list of its elements, every one of them, in the same order.
C20_SymbolsListOfItsElements ==
    \A out \in Normalised :
        LET value == symbols.value
        IN  /\ Missing(value) => out = <<>>
            /\ (value.type \in {"str", "int", "float"} /\ ~Missing(value)) =>
                   out = <<str(value)>>
            /\ value.type \in {"list", "tuple"} =>
                   /\ Len(out) = Len(value.items)
                   /\ \A i \in DOMAIN out : out[i] = str(value.items[i])

\* C20, amended: a missing (None or NaN) value becomes the empty list, a
\* scalar becomes the one-element list of its string, and a list or tuple
\* becomes the list of the strings of its elements other than None, in the
\* same order; None elements are dropped.
C20_SymbolsListOfNonNullElements ==
    \A out \in Normalised :
        LET value == symbols.value
        IN  /\ Missing(value) => out = <<>>
            /\ (value.type \in {"str", "int", "float"} /\ ~Missing(value)) =>
                   out = <<str(value)>>
            /\ value.type \in {"list", "tuple"} =>
                   /\ Len(out) = Len(NonNull(value.items))
                   /\ \A i \in DOMAIN out : out[i] = str(NonNull(value.items)[i])
            /\ value = PyStr("AAPL") => out = <<"AAPL">>
            /\ value = PyList(<<PyStr("AAPL"), PyStr("MSFT")>>) =>
                   out = <<"AAPL", "MSFT">>

\* A list with a None between two symbols has been through the fetcher and
\* the repository: the None is gone, the order is kept.
C20_Witness ==
    /\ symbols.pc = "records" /\ symbols.fetched
    /\ symbols.value = PyList(<<PyStr("MSFT"), PyNone, PyStr("AAPL")>>)
    /\ symbols.dataframe = <<"MSFT", "AAPL">>
    /\ symbols.records = <<"MSFT", "AAPL">>

(***************************************************************************)
(* Properties of the two retry variants.                                   *)
(***************************************************************************)
\* The variant that is not running.
OtherVariant == CHOOSE variant \in Variants : variant # call.op

\* C21: on every sequence of outcomes of the wrapped operation, of whatever
\* exception class, alpaca_retry and alpaca_retry_async make the same number
\* of calls and end with the same value or error: after each failed attempt
\* of the running variant, the other variant, given the same outcomes so
\* far, takes the same decision (wait and call again, or raise the error).
C21_VariantsDecideAlike ==
    (/\ call.op \in Variants
     /\ pc \in {"wait", "done"}
     /\ outcomes # <<>>
     /\ Last(outcomes).cls # "ok") =>
        ((pc = "wait") <=>
            Retries(OtherVariant, Last(outcomes), Len(outcomes)))

\* The exponential wait of the policy after the n-th failed attempt, in
\* tenths of a second: min(60, 1 * 2^(n-1)) seconds.
w(n) == IF 2^(n - 1) < 60 THEN 10 * 2^(n - 1) ELSE 600

\* C22: in both variants the wait after the n-th failed attempt, n = 1..4,
\* lies between 0.8 and 1.2 times min(60, 2^(n-1)) seconds, and there is no
\* wait after a success or after the 5th failed attempt.
C22_WaitWithinJitterBand ==
    call.op \in Variants =>
        /\ pc = "wait" =>
              /\ Len(outcomes) \in 1..4
              /\ Last(outcomes).cls # "ok"
              /\ 10 * wait_time >= 8 * w(Len(outcomes))
              /\ 10 * wait_time <= 12 * w(Len(outcomes))
        /\ pc # "wait" => wait_time = 0

(***************************************************************************)
(* Properties of the page requests of fetch_option_contracts.              *)
(***************************************************************************)
\* No request of the current call has raised: the provider has answered
\* every request with the next response of its chain.
ChainAnswered == \A i \in DOMAIN outcomes : outcomes[i].cls = "ok"

\* C23: on a chain of n >= 1 responses of which only the last carries no
\* token, fetch_option_contracts sends exactly n requests, the first without
\* a token and request i+1 with the token response i returned, and stops at
\* the first response without a token; while it is still asking it has sent
\* fewer than n; a chain of one empty page gives an empty DataFrame, with no
\* error.
C23_OneRequestPerPage ==
    (call.op = "sync_option_contracts" /\ ChainAnswered) =>
        /\ pc = "fetched" =>
              /\ Len(requests) = Len(pages)
              /\ \A i \in DOMAIN requests :
                    requests[i] = IF i = 1 THEN None ELSE i
              /\ pages = << <<>> >> =>
                    (df.rows = <<>> /\ Last(outcomes).cls = "ok")
        /\ pc = "page" =>
              /\ Len(requests) < Len(pages)
              /\ \A i \in DOMAIN requests :
                    requests[i] = IF i = 1 THEN None ELSE i
              /\ page_token = Len(requests) + 1

\* A chain of two pages has been fetched with two requests, the second
\* carrying the token of the first response.
C23_Witness ==
    /\ call.op = "sync_option_contracts"
    /\ pc = "fetched"
    /\ ChainAnswered
    /\ Len(pages) = 2
    /\ requests = <<None, 2>>
    /\ Len(all_contracts) = Len(catalogue)

(***************************************************************************)
(* Properties of the ingested_at default.                                  *)
(***************************************************************************)
\* C24: every record of a non-empty upsert is written with a non-null
\* ingested_at: the records the statement receives hold, one for one, the
\* value the DataFrame carries for the record, or the write-time instant
\* when the column is absent or the record's value is missing.
C24_EveryRecordStamped ==
    (call.op = "upsert" /\ pc \in {"begin", "execute", "commit"}) =>
        /\ Len(tx.records) = Len(given.df.rows)
        /\ \A i \in DOMAIN tx.records :
              /\ tx.records[i]["ingested_at"] # Null
              /\ tx.records[i]["ingested_at"] =
                    IF /\ "ingested_at" \in given.df.columns
                       /\ given.df.rows[i]["ingested_at"] # Null
                    THEN given.df.rows[i]["ingested_at"]
                    ELSE clock

(***************************************************************************)
(* Properties of the asset and option-contract records.                    *)
(***************************************************************************)
\* C25: in the record fetch_assets or fetch_option_contracts builds, every
\* optional field whose attribute the upstream object lacks, or has as
\* None, is null.
C25_MissingOptionalIsNull ==
    master.pc = "record" =>
        \A c \in DOMAIN master.record \ {"id"} :
            getattr(master.object, c) = PyNone => master.record[c] = PyNone

(***************************************************************************)
(* Properties of the column schema of the fetchers' results.               *)
(***************************************************************************)
\* The columns a non-empty result of the ingestion's fetcher carries.
FullSchema(op) == Normalise(op, <<Item(1)>>, call.arg).columns

\* C26: the DataFrame a bars fetcher or the news fetcher returns carries the
\* full column set of its entity whatever the payload: on an empty payload
\* it has no rows and the columns a non-empty result has.
C26_FullSchemaAlways ==
    (call.op \in IngestOps /\ pc = "fetched") =>
        /\ df.columns = FullSchema(call.op)
        /\ catalogue = <<>> => df.rows = <<>>

(***************************************************************************)
(* The frame of an upsert.                                                 *)
(***************************************************************************)
\* C27: at every moment of an upsert call into table T with records R, the
\* rows T held before the call under a key that is not in R are in T
\* unchanged, every other table is as it was, every key T held is still
\* held (no row is deleted, no conflict column of a row changes), and T has
\* at least as many rows as before the call.
C27_UpsertFrame ==
    (call.op = "upsert") =>
        LET t == given.table
        IN  /\ \A r \in store0[t] :
                  KeyOf(t, r) \notin GivenKeys => r \in store[t]
            /\ \A u \in Tables \ {t} : store[u] = store0[u]
            /\ Keys(t, store0[t]) \subseteq Keys(t, store[t])
            /\ Cardinality(store[t]) >= Cardinality(store0[t])

\* An upsert of a record with a new key has returned on a table that held
\* a row under another key: that row is still there, beside the new one.
C27_Witness ==
    /\ UpsertReturned
    /\ StaleRow(given.table) \in store0[given.table]
    /\ KeyOf(given.table, StaleRow(given.table)) \notin GivenKeys
    /\ StaleRow(given.table) \in store[given.table]
    /\ Cardinality(store[given.table]) = 2
    /\ \E u \in Tables \ {given.table} : store[u] # {}

(***************************************************************************)
(* Properties of execute_task.                                             *)
(***************************************************************************)
\* C28: whenever execute_task has ended, with a value or with any error,
\* the engine of the repository it created has been disposed.
C28_DisposedOnEveryExit ==
    task.pc = "done" => task.engine = "disposed"

(***************************************************************************)
(* Properties of the sync services with the production factory.            *)
(***************************************************************************)
\* C29: a sync_assets call with a valid asset class, or a
\* sync_option_contracts call, made with the production AlpacaClientFactory
\* gets its trading client and reaches the fetch: when it has ended the
\* fetcher has been invoked, and an error it ended with is not one of the
\* client acquisition.
C29_ProductionFactoryReachesFetch ==
    (/\ call.op \in SyncOps
     /\ call.factory = "AlpacaClientFactory"
     /\ call.op = "sync_assets" => ValidAssetClass(call.arg)
     /\ pc = "done") =>
        /\ outcomes # <<>>
        /\ result.kind = "raised" => result.error.cls # "AttributeError"

\* C30: the normaliser of fetchers/news.py and the one of
\* repository/postgres.py return the same list for every symbols value;
\* either of them, applied to the list the fetcher produced, returns that
\* list; so the symbols upsert_news hands to the statement are the symbols
\* the fetch produced.
C30_NormalisersAgree ==
    /\ news_normalize_symbols(symbols.value)
          = postgres_normalize_symbols(symbols.value)
    /\ symbols.fetched =>
          /\ postgres_normalize_symbols(ListOfStr(symbols.dataframe))
                = symbols.dataframe
          /\ news_normalize_symbols(ListOfStr(symbols.dataframe))
                = symbols.dataframe
    /\ (symbols.fetched /\ symbols.pc = "records") =>
          symbols.records = symbols.dataframe
    /\ (~symbols.fetched /\ symbols.pc = "records") =>
          symbols.records = news_normalize_symbols(symbols.value)

\* A tuple of an int and a None has been normalised at fetch time and again
\* in upsert_news: both lists hold the string of the int.
C30_Witness ==
    /\ symbols.pc = "records" /\ symbols.fetched
    /\ symbols.value = PyTuple(<<PyInt(7), PyNone>>)
    /\ symbols.dataframe = <<"7">>
    /\ symbols.records = <<"7">>

====
